---- MODULE Spec2Model ----
(***************************************************************************)
(* Secret Santa matcher (santa.py): roster checks, the randomized greedy   *)
(* matching loop of secret_santa / set_matches, the post-checks and the    *)
(* e-mail loop of send_emails, as one sequential state machine.            *)
(*                                                                         *)
(* Python lists are sequences, dicts are functions, Person objects are     *)
(* the records of `people` plus the mutable field `receiver` (indexed by   *)
(* the person's position in `people`, i.e. by object identity).            *)
(*                                                                         *)
(* The lists that are mutated in place are kept in a heap: reference 1 is  *)
(* the list bound to `names`, references 2.. are the lists made by         *)
(* names.copy(); the graph dict maps each key to a reference.              *)
(***************************************************************************)
EXTENDS Integers, Sequences, FiniteSets, TLC

VARIABLES
    entry,           \* which function the caller invoked
    people,          \* list of Person objects (the immutable fields)
    receiver,        \* Person.receiver of each object in `people`
    name_to_person,  \* dict name -> Person (index into people)
    names,           \* list(name_to_person.keys()), the list object 1
    graph,           \* dict name -> list: its keys in order, and the
                     \* reference of each key's list
    lists,           \* the list objects 2.. made by names.copy()
    count,           \* attempt counter of secret_santa
    pc,              \* control point
    idx,             \* position of the running for-loop
    outbox,          \* messages yag.send accepted, in order
    attempted,       \* persons for whom yag.send has been called
    failedAt         \* person whose yag.send raised, 0 if none

vars == <<entry, people, receiver, name_to_person, names, graph, lists, count,
          pc, idx, outbox, attempted, failedAt>>

----------------------------------------------------------------------------
(* Bounds and constants *)

NUM_PEOPLE == 6

\* largest roster size for which every restriction assignment is enumerated
MaxPeople == 3

\* the attempt counter is only printed; it is kept up to MaxCount and then
\* saturates (the loop itself is never cut off)
MaxCount == 2

AllNames == <<"A", "B", "C", "D", "E", "F", "G">>

\* Python's None
None == "<None>"

\* an SO cell naming nobody in the roster
Nobody == "Nobody"

Range(s) == {s[i] : i \in DOMAIN s}

\* Recursive helpers bind each intermediate list with a one-element set
\* (x \in {e}), so that the list is computed once per step.

----------------------------------------------------------------------------
(* Person and the rosters the sheet can hold *)

Person(name, email, restriction, wishlist) ==
    [name |-> name, email |-> email, restriction |-> restriction,
     wishlist |-> wishlist]

EmailOf(name) == name \o "@mail"

WishOf(name) == name \o "-wish"

StdPerson(i, so) == Person(AllNames[i], EmailOf(AllNames[i]), so, WishOf(AllNames[i]))

FirstNames(n) == {AllNames[i] : i \in 1..n}

\* every roster of up to MaxPeople distinct names, any restriction column
SmallRosters ==
    UNION {{[i \in 1..n |-> StdPerson(i, f[i])] :
               f \in [1..n -> FirstNames(n) \cup {Nobody}]} : n \in 0..MaxPeople}

Partner(i) == IF i % 2 = 1 THEN i + 1 ELSE i - 1

\* n people (n even) in mutually excluded pairs: (A,B),(B,A),(C,D),(D,C),...
Couples(n) == [i \in 1..n |-> StdPerson(i, AllNames[Partner(i)])]

\* the full-size roster with one cell of row k changed
WithField(k, fld, val) ==
    [i \in 1..NUM_PEOPLE |->
        IF i = k THEN [Couples(NUM_PEOPLE)[i] EXCEPT ![fld] = val]
                 ELSE Couples(NUM_PEOPLE)[i]]

Fields == {"name", "email", "restriction", "wishlist"}

\* six people, nobody with an SO among the participants
Singles == [i \in 1..NUM_PEOPLE |-> StdPerson(i, Nobody)]

FullRosters ==
    {Couples(NUM_PEOPLE), Singles}
      \cup {WithField(k, fld, "") : k \in 1..NUM_PEOPLE, fld \in Fields}
      \cup {WithField(k, "name", AllNames[1]) : k \in 2..NUM_PEOPLE}
      \cup {WithField(k, "restriction", Nobody) : k \in {1, NUM_PEOPLE}}

\* what secret_santa is called on
MatcherRosters == SmallRosters \cup {Couples(4)}

\* what the sheet read by run_secret_santa may hold
SheetRosters == SmallRosters \cup {Couples(4)} \cup FullRosters

----------------------------------------------------------------------------
(* Pure helpers of santa.py *)

RECURSIVE ListRemove(_, _)
\* list.remove(x): deletes the first occurrence of x (x must occur)
ListRemove(s, x) ==
    IF s = <<>> THEN <<>>
    ELSE IF Head(s) = x THEN Tail(s)
    ELSE <<Head(s)>> \o ListRemove(Tail(s), x)

check_people_data(ppl) ==
    \A i \in DOMAIN ppl :
        /\ ppl[i].name # None /\ Len(ppl[i].name) > 0
        /\ ppl[i].email # None /\ Len(ppl[i].email) > 0
        /\ ppl[i].restriction # None /\ Len(ppl[i].restriction) > 0
        /\ ppl[i].wishlist # None /\ Len(ppl[i].wishlist) > 0

\* the dict built by inserting people in order: a later person with the same
\* name overwrites the earlier one
match_name_to_person(ppl) ==
    [n \in {ppl[i].name : i \in DOMAIN ppl} |->
        CHOOSE i \in DOMAIN ppl :
            /\ ppl[i].name = n
            /\ \A j \in DOMAIN ppl : ppl[j].name = n => j <= i]

RECURSIVE Dedup(_, _, _)
\* the keys of a dict filled by inserting s[i], s[i+1], ... in order
Dedup(s, i, acc) ==
    IF i > Len(s) THEN acc
    ELSE CHOOSE res \in {Dedup(s, i + 1, keys) :
                            keys \in {IF s[i] \in Range(acc) THEN acc
                                      ELSE Append(acc, s[i])}} : TRUE

\* variant: the name list taken from the people list, duplicates kept
KeysOf_from_people(ppl) == [i \in 1..Len(ppl) |-> ppl[i].name]

\* list(name_to_person.keys()): the keys in order of first insertion
KeysOf(ppl) == Dedup([i \in 1..Len(ppl) |-> ppl[i].name], 1, <<>>)

get_person_from_name(name, n2p) == n2p[name]

\* the heap made of the list `names` and the copies
Heap(nms, ls) == <<nms>> \o ls

\* the copies held by heap h
Copies(h) == Tail(h)

\* variant: the list is stored without .copy(), every key shares `names`
generate_starting_graph_shared(h) ==
    [graph |-> [keys |-> Dedup(h[1], 1, <<>>),
                edges |-> [n \in Range(h[1]) |-> 1]],
     heap |-> <<h[1]>>]

\* iteration k stores a fresh copy (reference k + 1) under the key names[k]
generate_starting_graph(h) ==
    [graph |-> [keys |-> Dedup(h[1], 1, <<>>),
                edges |-> [n \in Range(h[1]) |->
                             1 + CHOOSE k \in DOMAIN h[1] :
                                    /\ h[1][k] = n
                                    /\ \A j \in DOMAIN h[1] : h[1][j] = n => j <= k]],
     heap |-> <<h[1]>> \o [k \in 1..Len(h[1]) |-> h[1]]]

\* lines 109-116 for one key: the list of `name` loses the name and the SO
RestrictEdges(name, g, h, n2p) ==
    LET ref == g.edges[name]
        e1 == IF name \in Range(h[ref]) THEN ListRemove(h[ref], name) ELSE h[ref]
        significant_other == people[get_person_from_name(name, n2p)].restriction
        e2 == IF significant_other \in Range(e1) THEN ListRemove(e1, significant_other)
              ELSE e1
    IN  [h EXCEPT ![ref] = e2]

RECURSIVE EnforceFrom(_, _, _, _)
\* the loop of enforce_restrictions from the k-th key on
EnforceFrom(g, h, n2p, k) ==
    IF k > Len(g.keys) THEN h
    ELSE CHOOSE res \in {EnforceFrom(g, h2, n2p, k + 1) :
                            h2 \in {RestrictEdges(g.keys[k], g, h, n2p)}} : TRUE

enforce_restrictions(g, h, n2p) == EnforceFrom(g, h, n2p, 1)

RECURSIVE PruneFrom(_, _, _, _, _)
\* lines 153-155 for the keys ks[k], ks[k+1], ...
PruneFrom(rcv, ks, g, h, k) ==
    IF k > Len(ks) THEN h
    ELSE CHOOSE res \in {PruneFrom(rcv, ks, g, h2, k + 1) :
                            h2 \in {IF rcv \in Range(h[g.edges[ks[k]]])
                                    THEN [h EXCEPT ![g.edges[ks[k]]] =
                                                ListRemove(h[g.edges[ks[k]]], rcv)]
                                    ELSE h}} : TRUE

\* variant: the loop stops at the gifter instead of skipping it, so only the
\* keys before the gifter are pruned
remove_receiver_break(gifter, rcv, g, h) ==
    LET pos == CHOOSE k \in DOMAIN g.keys : g.keys[k] = gifter
    IN  PruneFrom(rcv, SubSeq(g.keys, 1, pos - 1), g, h, 1)

\* variant: the receiver's list is skipped instead of the gifter's
remove_receiver_skip_receiver(gifter, rcv, g, h) ==
    LET NotReceiver(name) == name # rcv
    IN  PruneFrom(rcv, SelectSeq(g.keys, NotReceiver), g, h, 1)

remove_receiver_from_edges(gifter, rcv, g, h) ==
    LET NotGifter(name) == name # gifter
    IN  PruneFrom(rcv, SelectSeq(g.keys, NotGifter), g, h, 1)

reset_matches(rcvs) == [i \in DOMAIN rcvs |-> None]

\* variant: `return True` inside the loop, so only the first person is looked at
check_matches_first_only(ppl, rcvs) ==
    \A i \in DOMAIN ppl \cap {1} :
        ~ (\/ rcvs[i] = ppl[i].name
           \/ rcvs[i] = ppl[i].restriction
           \/ rcvs[i] = None)

\* variant: the None test inverted
check_matches_inverted(ppl, rcvs) ==
    \A i \in DOMAIN ppl :
        ~ (\/ rcvs[i] = ppl[i].name
           \/ rcvs[i] = ppl[i].restriction
           \/ rcvs[i] # None)

check_matches(ppl, rcvs) ==
    \A i \in DOMAIN ppl :
        ~ (\/ rcvs[i] = ppl[i].name
           \/ rcvs[i] = ppl[i].restriction
           \/ rcvs[i] = None)

RECURSIVE RemoveAll(_, _, _)
\* the loop of check_receivers; list.remove of an absent value raises
RemoveAll(lst, rcvs, i) ==
    IF i > Len(rcvs) THEN (IF Len(lst) # 0 THEN "False" ELSE "True")
    ELSE IF rcvs[i] \notin Range(lst) THEN "ValueError"
    ELSE CHOOSE res \in {RemoveAll(rest, rcvs, i + 1) :
                            rest \in {ListRemove(lst, rcvs[i])}} : TRUE

check_receivers(rcvs, nms) == RemoveAll(nms, rcvs, 1)

\* count += 1, kept up to MaxCount
Inc(c) == IF c < MaxCount THEN c + 1 ELSE c

----------------------------------------------------------------------------
(* Initial states *)

NoDict == [n \in {} |-> 0]

\* `graph` before line 201 has run
NoGraph == [keys |-> <<>>, edges |-> NoDict]

Init ==
    /\ entry \in {"secret_santa", "run_secret_santa"}
    /\ people \in (IF entry = "secret_santa" THEN MatcherRosters ELSE SheetRosters)
    /\ receiver = [i \in DOMAIN people |-> None]
    /\ name_to_person = IF entry = "secret_santa" THEN match_name_to_person(people)
                        ELSE NoDict
    /\ names = IF entry = "secret_santa" THEN KeysOf(people) ELSE <<>>
    /\ graph = NoGraph
    /\ lists = <<>>
    /\ count = 0
    /\ pc = IF entry = "secret_santa" THEN "while" ELSE "check_count"
    /\ idx = 0
    /\ outbox = <<>>
    /\ attempted = {}
    /\ failedAt = 0

----------------------------------------------------------------------------
(* run_secret_santa, lines 256-265 *)

CheckCount ==
    /\ pc = "check_count"
    /\ pc' = IF Len(people) # NUM_PEOPLE THEN "bad_count" ELSE "check_data"
    /\ UNCHANGED <<entry, people, receiver, name_to_person, names, graph, lists, count,
                   idx, outbox, attempted, failedAt>>

CheckData ==
    /\ pc = "check_data"
    /\ IF ~ check_people_data(people)
       THEN /\ pc' = "bad_data"
            /\ UNCHANGED <<name_to_person, names>>
       ELSE /\ name_to_person' = match_name_to_person(people)
            /\ names' = KeysOf(people)
            /\ pc' = "while"
    /\ UNCHANGED <<entry, people, receiver, graph, lists, count, idx, outbox,
                   attempted, failedAt>>

----------------------------------------------------------------------------
(* secret_santa and set_matches *)

\* line 198 true: leave the loop and return graph (unbound if never assigned)
SecretSantaReturn ==
    /\ pc = "while"
    /\ check_matches(people, receiver)
    /\ pc' = IF count = 0 THEN "unbound_local" ELSE "returned"
    /\ UNCHANGED <<entry, people, receiver, name_to_person, names, graph, lists,
                   count, idx, outbox, attempted, failedAt>>

\* lines 198-202: reset, fresh graph, enforce, then call set_matches
StartAttempt ==
    /\ pc = "while"
    /\ ~ check_matches(people, receiver)
    /\ receiver' = reset_matches(receiver)
    /\ \E gen \in {generate_starting_graph(Heap(names, <<>>))} :
          \E h \in {enforce_restrictions(gen.graph, gen.heap, name_to_person)} :
             /\ graph' = gen.graph
             /\ names' = h[1]
             /\ lists' = Copies(h)
    /\ pc' = "set_matches"
    /\ UNCHANGED <<entry, people, name_to_person, count, idx, outbox,
                   attempted, failedAt>>

\* line 125: set_matches enforces the restrictions again
SetMatchesEnforce ==
    /\ pc = "set_matches"
    /\ \E h \in {enforce_restrictions(graph, Heap(names, lists), name_to_person)} :
          /\ names' = h[1]
          /\ lists' = Copies(h)
    /\ idx' = 1
    /\ pc' = "pass"
    /\ UNCHANGED <<entry, people, receiver, name_to_person, graph, count,
                   outbox, attempted, failedAt>>

\* lines 127-143, one iteration in which random.choice returns r
Pick(r) ==
    /\ pc = "pass"
    /\ idx <= Len(graph.keys)
    /\ LET name == graph.keys[idx]
           edges == Heap(names, lists)[graph.edges[name]]
       IN  /\ Len(edges) # 0
           /\ r \in Range(edges)
           /\ receiver' = [receiver EXCEPT ![get_person_from_name(name, name_to_person)] = r]
           /\ \E h \in {remove_receiver_from_edges(name, r, graph, Heap(names, lists))} :
                 /\ names' = h[1]
                 /\ lists' = Copies(h)
    /\ idx' = idx + 1
    /\ UNCHANGED <<entry, people, name_to_person, graph, count, pc, outbox,
                   attempted, failedAt>>

PassPick == \E r \in Range(AllNames) : Pick(r)

\* lines 131-133: nobody left to gift to, set_matches returns; line 204
PassDeadEnd ==
    /\ pc = "pass"
    /\ idx <= Len(graph.keys)
    /\ Len(Heap(names, lists)[graph.edges[graph.keys[idx]]]) = 0
    /\ count' = Inc(count)
    /\ idx' = 0
    /\ pc' = "while"
    /\ UNCHANGED <<entry, people, receiver, name_to_person, names, graph, lists,
                   outbox, attempted, failedAt>>

\* the for-loop of set_matches is exhausted; line 204
PassEnd ==
    /\ pc = "pass"
    /\ idx > Len(graph.keys)
    /\ count' = Inc(count)
    /\ idx' = 0
    /\ pc' = "while"
    /\ UNCHANGED <<entry, people, receiver, name_to_person, names, graph, lists,
                   outbox, attempted, failedAt>>

----------------------------------------------------------------------------
(* run_secret_santa, lines 273-281 *)

Verify ==
    /\ pc = "returned"
    /\ entry = "run_secret_santa"
    /\ IF ~ check_matches(people, receiver)
       THEN pc' = "bad_matches"
       ELSE IF check_receivers(receiver, names) = "ValueError"
       THEN pc' = "value_error"
       ELSE IF check_receivers(receiver, names) = "False"
       THEN pc' = "bad_receivers"
       ELSE pc' = "send_emails"
    /\ idx' = 1
    /\ UNCHANGED <<entry, people, receiver, name_to_person, names, graph, lists, count,
                   outbox, attempted, failedAt>>

----------------------------------------------------------------------------
(* send_emails *)

\* lines 222-236: what yag.send is called with in the iteration of person i
Message(i) ==
    LET receiver_name == receiver[i]
        rcv == get_person_from_name(receiver_name, name_to_person)
    IN  [to |-> people[rcv].email,
         greeting |-> people[i].name,
         mission |-> receiver_name,
         clues |-> people[rcv].wishlist]

\* yag.send returns normally
SendOk ==
    /\ pc = "send_emails"
    /\ idx <= Len(people)
    /\ outbox' = Append(outbox, Message(idx))
    /\ attempted' = attempted \cup {idx}
    /\ idx' = idx + 1
    /\ UNCHANGED <<entry, people, receiver, name_to_person, names, graph, lists, count,
                   pc, failedAt>>

\* yag.send raises: lines 237-239 print and return
SendRaises ==
    /\ pc = "send_emails"
    /\ idx <= Len(people)
    /\ attempted' = attempted \cup {idx}
    /\ failedAt' = idx
    /\ pc' = "done"
    /\ UNCHANGED <<entry, people, receiver, name_to_person, names, graph, lists, count,
                   idx, outbox>>

\* the for-loop of send_emails is exhausted
SendEnd ==
    /\ pc = "send_emails"
    /\ idx > Len(people)
    /\ pc' = "done"
    /\ UNCHANGED <<entry, people, receiver, name_to_person, names, graph, lists, count,
                   idx, outbox, attempted, failedAt>>

----------------------------------------------------------------------------

Next ==
    \/ CheckCount
    \/ CheckData
    \/ SecretSantaReturn
    \/ StartAttempt
    \/ SetMatchesEnforce
    \/ PassPick
    \/ PassDeadEnd
    \/ PassEnd
    \/ Verify
    \/ SendOk
    \/ SendRaises
    \/ SendEnd

Spec == Init /\ [][Next]_vars

RECURSIVE CanSucceed(_, _, _)
\* Some sequence of choices from the i-th key on ends the pass with every
\* person validly matched.  A later gifter's list is its list in heap h
\* without the receivers handed out in between (remove_receiver_from_edges).
CanSucceed(h, rcvs, i) ==
    IF i > Len(graph.keys) THEN check_matches(people, rcvs.set)
    ELSE \E r \in Range(h[graph.edges[graph.keys[i]]]) \ rcvs.used :
            \E nxt \in {[set |-> [rcvs.set EXCEPT
                                    ![get_person_from_name(graph.keys[i],
                                                           name_to_person)] = r],
                          used |-> rcvs.used \cup {r}]} :
                CanSucceed(h, nxt, i + 1)

\* random.choice at position i returns a receiver that keeps success possible
GoodPick(i) ==
    /\ idx = i
    /\ \E r \in Range(AllNames) :
          /\ Pick(r)
          /\ CanSucceed(Heap(names', lists'), [set |-> receiver', used |-> {}], i + 1)

\* The interpreter keeps running, and random.choice is uniform: a choice
\* that is offered again and again at a position is eventually the one taken.
FairSpec ==
    /\ Init /\ [][Next]_vars
    /\ WF_vars(Next)
    /\ \A i \in 1..NUM_PEOPLE : SF_vars(GoodPick(i))

----------------------------------------------------------------------------
(* Vocabulary of the properties, stated without the program's helpers *)

UniqueNames == \A i, j \in DOMAIN people : people[i].name = people[j].name => i = j

RECURSIVE HasMatching(_, _)
\* persons i.. can each be given a distinct receiver outside `used` that is
\* neither themselves nor their restriction
HasMatching(i, used) ==
    IF i > Len(people) THEN TRUE
    ELSE \E j \in DOMAIN people \ used :
            /\ j # i
            /\ people[j].name # people[i].restriction
            /\ HasMatching(i + 1, used \cup {j})

Feasible == UniqueNames /\ HasMatching(1, {})

Infeasible == UniqueNames /\ ~ HasMatching(1, {})

\* the roster gets as far as the call of secret_santa
EntersMatcher ==
    \/ entry = "secret_santa"
    \/ Len(people) = NUM_PEOPLE /\ check_people_data(people)

InMatcher == pc \in {"while", "set_matches", "pass"}

PassBegins == pc = "pass" /\ idx = 1

ValidRoster ==
    /\ Len(people) = NUM_PEOPLE
    /\ UniqueNames
    /\ \A i \in DOMAIN people :
        /\ people[i].name # ""
        /\ people[i].restriction \in {people[j].name : j \in DOMAIN people} \cup {""}

----------------------------------------------------------------------------
(* Properties *)

\* C1: whenever secret_santa returns, every participant has a receiver that
\* is set, is not the participant's own name and is not the participant's
\* restriction; a partial assignment of a dead-ended pass is never returned.
C1_ReturnedValid ==
    pc = "returned" =>
        \A i \in DOMAIN people :
            /\ receiver[i] # None
            /\ receiver[i] # people[i].name
            /\ receiver[i] # people[i].restriction

\* secret_santa returns on a later attempt, after an attempt that failed
C1_Witness == pc = "returned" /\ count >= 2 /\ Len(people) = 3

\* C2: whenever secret_santa returns, the assignment is a bijection on the
\* name set: every name is the receiver of exactly one participant, and
\* check_receivers returns True.
C2_Bijection ==
    pc = "returned" =>
        /\ \A n \in Range(names) :
              Cardinality({i \in DOMAIN people : receiver[i] = n}) = 1
        /\ \A i \in DOMAIN people : receiver[i] \in Range(names)
        /\ check_receivers(receiver, names) = "True"

\* the post-checks of run_secret_santa passed on a full-size roster
C2_Witness ==
    /\ pc = "send_emails" /\ idx = 1
    /\ Len(people) = NUM_PEOPLE /\ UniqueNames

\* C3: for a roster with no constraint-satisfying perfect matching, run
\* terminates after a bounded number of attempts (and reports failure).
C3_InfeasibleTerminates ==
    (Infeasible /\ EntersMatcher) => <>(~ InMatcher)

\* C4: for a roster of size >= 2 with unique names that has a perfect
\* matching, run eventually returns with every participant validly matched
\* (under fairness of the random choice); for the roster
\* (A,B),(B,A),(C,D),(D,C) A is assigned C or D, never B.
C4_FeasibleSucceeds ==
    /\ (Feasible /\ Len(people) >= 2 /\ EntersMatcher) =>
          <>(/\ pc = "returned"
             /\ \A i \in DOMAIN people :
                   receiver[i] \in Range(names) \ {people[i].name, people[i].restriction})
    /\ [](pc = "returned" /\ people = Couples(4) => receiver[1] \in {"C", "D"})

\* the two-couples roster is matched with A gifting to D
C4_Witness ==
    /\ people = Couples(4)
    /\ pc = "returned"
    /\ receiver = <<"D", "C", "B", "A">>

\* C5: a roster that fails a precondition check (duplicate name, empty name,
\* restriction naming nobody in the roster, wrong count) never enters the
\* matching loop of run_secret_santa.
C5_InvalidRejected ==
    (entry = "run_secret_santa" /\ ~ ValidRoster) =>
        pc \in {"check_count", "check_data", "bad_count", "bad_data"}

\* C6: when send_emails has finished, a notification has been attempted for
\* every participant other than the one whose delivery failed.
C6_OthersNotified ==
    pc = "done" =>
        \A i \in DOMAIN people : i # failedAt => i \in attempted

\* C7: enforce_restrictions is idempotent: on the starting graph and on every
\* graph of the run two calls leave what one call leaves, so at the start of
\* the pass (two calls made) the lists are what one call makes of the
\* starting graph.
C7_EnforceIdempotent ==
    LET gen == generate_starting_graph(Heap(names, <<>>))
        once == enforce_restrictions(gen.graph, gen.heap, name_to_person)
        now == Heap(names, lists)
    IN  /\ enforce_restrictions(gen.graph, once, name_to_person) = once
        /\ enforce_restrictions(graph,
                                enforce_restrictions(graph, now, name_to_person),
                                name_to_person)
             = enforce_restrictions(graph, now, name_to_person)
        /\ PassBegins => graph = gen.graph /\ now = once

\* the pass begins with some list that lost both the self and the SO edge
C7_Witness ==
    /\ PassBegins
    /\ \E r \in DOMAIN lists : Len(lists[r]) = Len(names) - 2

\* C8: when the greedy pass of an attempt begins, every receiver is unset and
\* every name's eligible list is the name list without the name itself and
\* without the restriction of the participant of that name; no list is
\* shared between two keys or with the name list, and the name list stays
\* the roster's throughout.
C8_AttemptStartsClean ==
    /\ pc \notin {"check_count", "check_data", "bad_count", "bad_data"} =>
          names = KeysOf(people)
    /\ PassBegins =>
          /\ \A i \in DOMAIN people : receiver[i] = None
          /\ graph.keys = names
          /\ DOMAIN graph.edges = Range(names)
          /\ \A n \in Range(names) :
                LET so == people[name_to_person[n]].restriction
                    Keep(x) == x # n /\ x # so
                IN  /\ graph.edges[n] \in 2..(Len(lists) + 1)
                    /\ Heap(names, lists)[graph.edges[n]] = SelectSeq(names, Keep)
          /\ \A m, n \in Range(names) : graph.edges[m] = graph.edges[n] => m = n

\* a pass begins after an earlier attempt that assigned receivers
C8_Witness == PassBegins /\ count >= 1 /\ Len(people) >= 3

\* C9: when send_emails has finished without a failure, every participant P
\* was sent, at P's own address, the message naming P's receiver and that
\* receiver's wishlist, and nobody was sent a message naming themselves.
C9_MissionToGifter ==
    (pc = "done" /\ failedAt = 0) =>
        /\ \A i \in DOMAIN people :
              \E k \in DOMAIN outbox :
                 /\ outbox[k].to = people[i].email
                 /\ outbox[k].mission = receiver[i]
                 /\ outbox[k].clues = people[name_to_person[receiver[i]]].wishlist
        /\ \A k \in DOMAIN outbox :
              outbox[k].to # people[name_to_person[outbox[k].mission]].email

\* C10: the graph secret_santa returns is the graph of pairings: the list of
\* every name holds exactly the receiver assigned to that name.
C10_GraphIsPairing ==
    pc = "returned" =>
        \A n \in Range(names) :
            Heap(names, lists)[graph.edges[n]] = <<receiver[name_to_person[n]]>>

\* three couples matched, A's list reduced to the one receiver
C10_Witness ==
    /\ pc = "returned"
    /\ people = Couples(NUM_PEOPLE)
    /\ Heap(names, lists)[graph.edges["A"]] = <<"F">>

====
